---- MODULE Spec2Model ----
\* rlog: per-file log/trace level filtering (filterSpec / filter), the package
\* settings built by init(), SetNewLogWriter, and the basicLog pipeline behind
\* Debug/Info/Warn/Error/Critical/Trace and their formatted forms.
\*
\* Strings are sequences of one-character strings, so that strings.Split,
\* strings.ToUpper, strconv.Atoi, path.Split, filepath.Base and filepath.Match
\* are computed character by character as the library computes them.
EXTENDS Integers, Sequences, FiniteSets, TLC

\* ---------------------------------------------------------------------------
\* Bounds of the model
\* ---------------------------------------------------------------------------
MaxFields == 2      \* fields (comma separated) in a generated level string
MaxDepth == 4       \* largest depth argument passed to Trace / Tracef
NegDepth == 2       \* depth arguments go down to -NegDepth
NumProcs == 2       \* goroutines calling the log functions concurrently
MaxLoggers == 3     \* loggers made after the one of init()
MaxReconfigs == 2   \* times the settings are rebuilt

\* ---------------------------------------------------------------------------
\* Program constants
\* ---------------------------------------------------------------------------
notATrace == 0 - 1
levelNone == 0
levelCrit == 1
levelErr == 2
levelWarn == 3
levelInfo == 4
levelDebug == 5
levelTrace == 6
Ldate == 1
Ltime == 2

\* ---------------------------------------------------------------------------
\* Literal strings
\* ---------------------------------------------------------------------------
sEmpty == << >>
sNONE == <<"N","O","N","E">>
sCRITICAL == <<"C","R","I","T","I","C","A","L">>
sERROR == <<"E","R","R","O","R">>
sWARN == <<"W","A","R","N">>
sINFO == <<"I","N","F","O">>
sDEBUG == <<"D","E","B","U","G">>
sTRACE == <<"T","R","A","C","E">>
sBADLEVEL == <<"B","A","D","L","E","V","E","L">>
sFooGo == <<"f","o","o",".","g","o">>
sBarGo == <<"b","a","r",".","g","o">>
sComma == ","
sEquals == "="
sSlash == "/"

\* ---------------------------------------------------------------------------
\* Library functions used by the package
\* ---------------------------------------------------------------------------
RECURSIVE Split(_, _)
\* strings.Split(s, sep) for a one-character separator: Split("", ",") is
\* [""], and n separators always give n+1 substrings.
Split(s, sep) ==
    IF s = << >> THEN << << >> >>
    ELSE LET rest == Split(Tail(s), sep)
         IN IF Head(s) = sep
            THEN << << >> >> \o rest
            ELSE << <<Head(s)>> \o Head(rest) >> \o Tail(rest)

RECURSIVE Join(_, _)
\* strings.Join(elems, sep); used to build the input strings.
Join(elems, sep) ==
    IF elems = << >> THEN << >>
    ELSE IF Len(elems) = 1 THEN Head(elems)
    ELSE Head(elems) \o <<sep>> \o Join(Tail(elems), sep)

lowerLetters == <<"a","b","c","d","e","f","g","h","i","j","k","l","m",
                  "n","o","p","q","r","s","t","u","v","w","x","y","z">>
upperLetters == <<"A","B","C","D","E","F","G","H","I","J","K","L","M",
                  "N","O","P","Q","R","S","T","U","V","W","X","Y","Z">>

upperChar(c) ==
    IF \E i \in 1..26 : lowerLetters[i] = c
    THEN upperLetters[CHOOSE i \in 1..26 : lowerLetters[i] = c]
    ELSE c

\* strings.ToUpper
ToUpper(s) == [i \in 1..Len(s) |-> upperChar(s[i])]

digits == <<"0","1","2","3","4","5","6","7","8","9">>
isDigit(c) == \E i \in 1..10 : digits[i] = c
digitVal(c) == (CHOOSE i \in 1..10 : digits[i] = c) - 1

RECURSIVE digitsVal(_, _)
digitsVal(s, acc) ==
    IF s = << >> THEN acc ELSE digitsVal(Tail(s), acc * 10 + digitVal(Head(s)))

\* strconv.Atoi: an optional sign followed by at least one decimal digit;
\* anything else is an error (the inputs are far below the int range).
Atoi(s) ==
    LET signed == s # << >> /\ Head(s) \in {"+", "-"}
        body == IF signed THEN Tail(s) ELSE s
        good == body # << >> /\ \A i \in 1..Len(body) : isDigit(body[i])
    IN IF ~good THEN [err |-> TRUE, val |-> 0]
       ELSE [err |-> FALSE,
             val |-> IF signed /\ Head(s) = "-"
                     THEN 0 - digitsVal(body, 0) ELSE digitsVal(body, 0)]

RECURSIVE lastIndex(_, _)
\* strings.LastIndex(s, c) as a 1-based position, 0 when c is absent
lastIndex(s, c) ==
    IF s = << >> THEN 0
    ELSE IF s[Len(s)] = c THEN Len(s)
    ELSE lastIndex(SubSeq(s, 1, Len(s) - 1), c)

\* path.Split: everything up to and including the final slash, and the rest
pathSplit(p) ==
    LET i == lastIndex(p, sSlash)
    IN [dir |-> SubSeq(p, 1, i), file |-> SubSeq(p, i + 1, Len(p))]

RECURSIVE stripTrailingSlashes(_)
stripTrailingSlashes(p) ==
    IF p # << >> /\ p[Len(p)] = sSlash
    THEN stripTrailingSlashes(SubSeq(p, 1, Len(p) - 1))
    ELSE p

\* filepath.Base: "." for the empty path, "/" for a path of slashes only,
\* otherwise the last element after removing trailing slashes.
Base(p) ==
    IF p = << >> THEN <<".">>
    ELSE LET q == stripTrailingSlashes(p)
         IN IF q = << >> THEN <<sSlash>>
            ELSE pathSplit(q).file

\* A '[' that is never closed makes the pattern malformed (ErrBadPattern).
\* The patterns of this model use '*', '?', literal characters and, for the
\* malformed case, an unclosed '['.
badPattern(pattern) ==
    \E i \in 1..Len(pattern) :
        /\ pattern[i] = "["
        /\ ~\E j \in (i + 1)..Len(pattern) : pattern[j] = "]"

RECURSIVE globMatch(_, _)
globMatch(pattern, name) ==
    IF pattern = << >> THEN name = << >>
    ELSE IF Head(pattern) = "*"
         THEN \/ globMatch(Tail(pattern), name)
              \/ /\ name # << >>
                 /\ Head(name) # sSlash
                 /\ globMatch(pattern, Tail(name))
    ELSE IF Head(pattern) = "?"
         THEN /\ name # << >>
              /\ Head(name) # sSlash
              /\ globMatch(Tail(pattern), Tail(name))
    ELSE /\ name # << >>
         /\ Head(name) = Head(pattern)
         /\ globMatch(Tail(pattern), Tail(name))

\* Match that takes a malformed pattern for a match
MatchBadMatches(pattern, name) == badPattern(pattern) \/ globMatch(pattern, name)

\* filepath.Match(pattern, name): the caller discards the error, so a
\* malformed pattern is simply "no match".
Match(pattern, name) == ~badPattern(pattern) /\ globMatch(pattern, name)

RECURSIVE natDigits(_)
natDigits(n) ==
    IF n < 10 THEN <<digits[n + 1]>>
    ELSE natDigits(n \div 10) \o <<digits[(n % 10) + 1]>>

\* The verb %d of fmt for an int (strconv.Itoa)
Itoa(n) == IF n < 0 THEN <<"-">> \o natDigits(0 - n) ELSE natDigits(n)

RECURSIVE spaces(_)
spaces(n) == IF n <= 0 THEN << >> ELSE <<" ">> \o spaces(n - 1)

\* The verb %-Ns of fmt: s left-justified in a field of at least width
\* characters; a longer s is not cut.
padRight(s, width) == s \o spaces(width - Len(s))

\* fmt.Sprintln: the operands separated by spaces, and a newline
Sprintln(a) == Join(a, " ") \o <<"\n">>

missingArg(verb) == <<"%","!",verb,"(","M","I","S","S","I","N","G",")">>

RECURSIVE Sprintf(_, _)
\* fmt.Sprintf for the verbs %s, %d and %v (the next operand as text) and
\* %%; a verb without an operand prints as missing. The inputs pass no
\* operand beyond the verbs.
Sprintf(format, a) ==
    IF format = << >> THEN << >>
    ELSE IF Head(format) # "%"
         THEN <<Head(format)>> \o Sprintf(Tail(format), a)
    ELSE IF Len(format) = 1
         THEN <<"%","!","(","N","O","V","E","R","B",")">>
    ELSE IF format[2] = "%"
         THEN <<"%">> \o Sprintf(SubSeq(format, 3, Len(format)), a)
    ELSE IF format[2] \in {"s", "d", "v"}
         THEN (IF a = << >> THEN missingArg(format[2]) ELSE Head(a))
              \o Sprintf(SubSeq(format, 3, Len(format)),
                         IF a = << >> THEN a ELSE Tail(a))
    ELSE <<Head(format)>> \o Sprintf(Tail(format), a)

\* ---------------------------------------------------------------------------
\* filterSpec and filter
\* ---------------------------------------------------------------------------
\* levelNumbers: translation from level string to number; ok is the second
\* result of the map lookup.
levelNumbers(name) ==
    CASE name = sTRACE -> [ok |-> TRUE, val |-> levelTrace]
      [] name = sDEBUG -> [ok |-> TRUE, val |-> levelDebug]
      [] name = sINFO -> [ok |-> TRUE, val |-> levelInfo]
      [] name = sWARN -> [ok |-> TRUE, val |-> levelWarn]
      [] name = sERROR -> [ok |-> TRUE, val |-> levelErr]
      [] name = sCRITICAL -> [ok |-> TRUE, val |-> levelCrit]
      [] name = sNONE -> [ok |-> TRUE, val |-> levelNone]
      [] OTHER -> [ok |-> FALSE, val |-> 0]

\* levelStrings: translation from level to string representation; a level
\* that is no key of the map gives the empty string.
levelStrings(level) ==
    CASE level = levelTrace -> sTRACE
      [] level = levelDebug -> sDEBUG
      [] level = levelInfo -> sINFO
      [] level = levelWarn -> sWARN
      [] level = levelErr -> sERROR
      [] level = levelCrit -> sCRITICAL
      [] level = levelNone -> sNONE
      [] OTHER -> sEmpty

\* logLevelOf without the refusal of TRACE
logLevelOfAllowTrace(levelToken) ==
    LET r == levelNumbers(ToUpper(levelToken))
    IN [skip |-> ~r.ok, val |-> r.val]

\* The level named by a log-level token: the token is upper-cased and looked
\* up; an unknown name and TRACE are both refused.
logLevelOf(levelToken) ==
    LET r == levelNumbers(ToUpper(levelToken))
    IN [skip |-> ~r.ok \/ r.val = levelTrace, val |-> r.val]

\* The level named by a trace-level token: it must be numeric.
traceLevelOf(levelToken) ==
    LET r == Atoi(levelToken)
    IN [skip |-> r.err, val |-> r.val]

\* fromStringField that does not skip a field whose level fails to parse
\* (the zero value of filterLevel is used)
fromStringFieldNoSkip(acc, f, isTraceLevels) ==
    LET tokens == Split(f, sEquals)
    IN IF Len(tokens) > 2 THEN acc
       ELSE LET matchToken == IF Len(tokens) = 1 THEN sEmpty ELSE tokens[1]
                levelToken == IF Len(tokens) = 1 THEN tokens[1] ELSE tokens[2]
                lv == IF isTraceLevels THEN traceLevelOf(levelToken)
                      ELSE logLevelOf(levelToken)
                level == IF lv.skip THEN 0 ELSE lv.val
            IN IF matchToken = sEmpty
               THEN [acc EXCEPT !.globalLevel = level]
               ELSE [acc EXCEPT !.filters =
                         Append(@, [Pattern |-> matchToken, Level |-> level])]

\* fromStringField that appends a global filter where its field stands
\* instead of remembering its level for the end
fromStringFieldInPlace(acc, f, isTraceLevels) ==
    LET tokens == Split(f, sEquals)
    IN IF Len(tokens) > 2 THEN acc
       ELSE LET matchToken == IF Len(tokens) = 1 THEN sEmpty ELSE tokens[1]
                levelToken == IF Len(tokens) = 1 THEN tokens[1] ELSE tokens[2]
                lv == IF isTraceLevels THEN traceLevelOf(levelToken)
                      ELSE logLevelOf(levelToken)
            IN IF lv.skip THEN acc
               ELSE [acc EXCEPT !.filters =
                         Append(@, [Pattern |-> matchToken, Level |-> lv.val])]

\* One iteration of the loop of fromString over the field f: acc holds the
\* filter list and the global level remembered so far.
fromStringField(acc, f, isTraceLevels) ==
    LET tokens == Split(f, sEquals)
    IN IF Len(tokens) > 2 THEN acc
       ELSE LET matchToken == IF Len(tokens) = 1 THEN sEmpty ELSE tokens[1]
                levelToken == IF Len(tokens) = 1 THEN tokens[1] ELSE tokens[2]
                lv == IF isTraceLevels THEN traceLevelOf(levelToken)
                      ELSE logLevelOf(levelToken)
            IN IF lv.skip THEN acc
               ELSE IF matchToken = sEmpty
                    THEN [acc EXCEPT !.globalLevel = lv.val]
                    ELSE [acc EXCEPT !.filters =
                              Append(@, [Pattern |-> matchToken, Level |-> lv.val])]

RECURSIVE fromStringLoop(_, _, _)
fromStringLoop(acc, fields, isTraceLevels) ==
    IF fields = << >> THEN acc
    ELSE fromStringLoop(fromStringField(acc, Head(fields), isTraceLevels),
                        Tail(fields), isTraceLevels)

\* fromString that starts from the zero value instead of globalLevelDefault
fromStringZeroDefault(filters, s, isTraceLevels, globalLevelDefault) ==
    LET acc == fromStringLoop([filters |-> filters, globalLevel |-> 0],
                              Split(s, sComma), isTraceLevels)
    IN Append(acc.filters, [Pattern |-> sEmpty, Level |-> acc.globalLevel])

\* filterSpec.fromString: appends to the filter list of the receiver (filters)
\* the pattern filters of s in their order, then the global filter.
fromString(filters, s, isTraceLevels, globalLevelDefault) ==
    LET acc == fromStringLoop([filters |-> filters, globalLevel |-> globalLevelDefault],
                              Split(s, sComma), isTraceLevels)
    IN Append(acc.filters, [Pattern |-> sEmpty, Level |-> acc.globalLevel])

\* match with a strict comparison of the levels
matchStrict(f, filename, level) ==
    LET m == IF f.Pattern # sEmpty THEN Match(f.Pattern, Base(filename)) ELSE TRUE
    IN IF m THEN [matched |-> TRUE, loggit |-> level < f.Level]
       ELSE [matched |-> FALSE, loggit |-> FALSE]

\* match that compares the pattern with the whole file name
matchFullName(f, filename, level) ==
    LET m == IF f.Pattern # sEmpty THEN Match(f.Pattern, filename) ELSE TRUE
    IN IF m THEN [matched |-> TRUE, loggit |-> level <= f.Level]
       ELSE [matched |-> FALSE, loggit |-> FALSE]

\* filter.match: (file name matched, message should be logged)
match(f, filename, level) ==
    LET m == IF f.Pattern # sEmpty THEN Match(f.Pattern, Base(filename)) ELSE TRUE
    IN IF m THEN [matched |-> TRUE, loggit |-> level <= f.Level]
       ELSE [matched |-> FALSE, loggit |-> FALSE]

RECURSIVE matchfilters(_, _, _)
\* matchfilters that admits when any filter matches and admits, as the
\* earlier FilterSpec.matchFilters did
matchfiltersAny(filters, filename, level) ==
    \E i \in 1..Len(filters) :
        match(filters[i], filename, level).matched
        /\ match(filters[i], filename, level).loggit

\* filterSpec.matchfilters: the verdict of the first filter that matches the
\* file name; false for an empty list and when no filter matches.
matchfilters(filters, filename, level) ==
    IF filters = << >> THEN FALSE
    ELSE LET r == match(Head(filters), filename, level)
         IN IF r.matched THEN r.loggit
            ELSE matchfilters(Tail(filters), filename, level)

\* ---------------------------------------------------------------------------
\* Package settings and init()
\* ---------------------------------------------------------------------------
VARIABLES
    conf,                   \* the environment the settings were built from
    logfilterSpec,          \* filters for log messages
    tracefilterSpec,        \* filters for trace messages
    settingShowCallerInfo,  \* whether caller info is logged
    settingDateTimeFlags,   \* flags for date/time output
    logWriter,              \* the *log.Logger: its identity, its io.Writer
                            \* and its flags
    openable,               \* whether os.OpenFile succeeds on the log file
    reconfigs,              \* how often the settings were rebuilt (history)
    requested,              \* the io.Writer handed to the latest call of
                            \* SetNewLogWriter (history)
    pc,                     \* per goroutine: position inside basicLog
    call,                   \* per goroutine: arguments and locals of basicLog
    seen                    \* per goroutine: the settings that were current
                            \* at some moment of its latest call (history)

vars == <<conf, logfilterSpec, tracefilterSpec, settingShowCallerInfo,
          settingDateTimeFlags, logWriter, openable, reconfigs, requested,
          pc, call, seen>>

Procs == 1..NumProcs

\* strconv.ParseBool
ParseBool(str) ==
    CASE str \in {<<"1">>, <<"t">>, <<"T">>, <<"T","R","U","E">>,
                  <<"t","r","u","e">>, <<"T","r","u","e">>}
           -> [err |-> FALSE, val |-> TRUE]
      [] str \in {<<"0">>, <<"f">>, <<"F">>, <<"F","A","L","S","E">>,
                  <<"f","a","l","s","e">>, <<"F","a","l","s","e">>}
           -> [err |-> FALSE, val |-> FALSE]
      [] OTHER -> [err |-> TRUE, val |-> FALSE]

\* isTrueBoolString without strings.ToUpper
isTrueBoolStringExact(str) ==
    \/ str = <<"Y">>
    \/ str = <<"Y","E","S">>
    \/ (~ParseBool(str).err /\ ParseBool(str).val)

\* Lines 266-275: upper-cased, "Y", "YES" or what ParseBool takes for true
isTrueBoolString(str) ==
    LET up == ToUpper(str)
    IN \/ up = <<"Y">>
       \/ up = <<"Y","E","S">>
       \/ (~ParseBool(up).err /\ ParseBool(up).val)

\* log.New(writer, "", flags): a new logger, distinct from every logger made
\* before (id), with a mutex of its own.
newLogger(id, writer, flags) == [id |-> id, writer |-> writer, flags |-> flags]

\* Lines 233-242 with the file treated as opened whenever one is named
initWriterNoFallback(e, opened) ==
    IF e.RLOG_LOG_FILE # sEmpty THEN "logfile" ELSE "stderr"

\* Lines 233-242: stderr, or the log file if one is named and os.OpenFile
\* succeeded (opened).
initWriter(e, opened) ==
    IF e.RLOG_LOG_FILE # sEmpty /\ opened THEN "logfile" ELSE "stderr"

\* The body of init() for the environment e; opened tells whether
\* os.OpenFile succeeds for a non-empty RLOG_LOG_FILE and id is the identity
\* of the logger that is made. The two filter specs are empty when init()
\* runs. The environment variables that init() does not read have no effect.
initSettings(e, opened, id) ==
    LET logTimeDate == ~isTrueBoolString(e.RLOG_LOG_NOTIME)
        flags == IF logTimeDate THEN Ldate + Ltime ELSE 0
    IN [settingShowCallerInfo |-> isTrueBoolString(e.RLOG_CALLER_INFO),
        tracefilterSpec |-> fromString(<< >>, e.RLOG_TRACE_LEVEL, TRUE, 0 - 1),
        logfilterSpec |-> fromString(<< >>, e.RLOG_LOG_LEVEL, FALSE, levelInfo),
        settingDateTimeFlags |-> flags,
        logWriter |-> newLogger(id, initWriter(e, opened), flags)]

\* The settings in force: what a log call can observe.
Settings ==
    [logfilterSpec |-> logfilterSpec,
     tracefilterSpec |-> tracefilterSpec,
     settingShowCallerInfo |-> settingShowCallerInfo,
     settingDateTimeFlags |-> settingDateTimeFlags,
     writer |-> logWriter.writer]

\* A caller frame that runtime.Caller cannot report
noFrame == [ok |-> FALSE, path |-> sEmpty, line |-> 0, func |-> sEmpty]

noCall ==
    [fn |-> "none", formatted |-> FALSE, logLevel |-> 0, traceLevel |-> 0,
     site |-> noFrame, caller |-> noFrame, moduleAndFileName |-> sEmpty,
     allowLog |-> FALSE, callerInfo |-> FALSE, callerInfoText |-> sEmpty,
     msg |-> sEmpty, written |-> FALSE, logger |-> 0 - 1, epoch |-> 0,
     writer |-> "none", flags |-> 0, line |-> sEmpty, result |-> "none"]

\* The package variables after init() for the environment e
installed(e, opened) ==
    LET st == initSettings(e, opened, 0)
    IN /\ conf = e
       /\ logfilterSpec = st.logfilterSpec
       /\ tracefilterSpec = st.tracefilterSpec
       /\ settingShowCallerInfo = st.settingShowCallerInfo
       /\ settingDateTimeFlags = st.settingDateTimeFlags
       /\ logWriter = st.logWriter
       /\ openable = opened
       /\ reconfigs = 0
       /\ requested = initWriter(e, opened)

\* ---------------------------------------------------------------------------
\* Inputs
\* ---------------------------------------------------------------------------
field(pattern, level) == pattern \o <<sEquals>> \o level

\* Fields of RLOG_LOG_LEVEL the generated strings are made of: the empty
\* field, a level, TRACE, an unknown name, pattern fields (lower-case level,
\* missing level), a global field with an empty pattern and a field with
\* three tokens.
LogFieldVocab ==
    { sEmpty, sWARN, sTRACE, sBADLEVEL,
      field(sFooGo, <<"d","e","b","u","g">>),
      field(sFooGo, sEmpty),
      field(sEmpty, sCRITICAL),
      field(field(sFooGo, sNONE), <<"x">>) }

\* Fields of RLOG_TRACE_LEVEL the generated strings are made of
TraceFieldVocab ==
    { sEmpty, <<"3">>, <<"x">>,
      field(sFooGo, <<"2">>),
      field(sEmpty, <<"1">>) }

FieldSeqs(vocab, n) == UNION { [1..k -> vocab] : k \in 1..n }

\* The fields of the inputs that set a global log level, and those that set
\* the level of a file pattern
GlobalLogFields == { sNONE, field(sEmpty, sCRITICAL), sERROR, sWARN, sINFO, sDEBUG }
PatternLogFields == { field(sFooGo, <<"d","e","b","u","g">>), field(<<"b","*">>, sERROR) }

\* RLOG_LOG_LEVEL: the strings of up to MaxFields fields, every single global
\* level, and every pattern with every global level in both orders
LogLevelStrings ==
    { Join(fs, sComma) : fs \in FieldSeqs(LogFieldVocab, MaxFields) }
    \cup GlobalLogFields
    \cup { Join(<<pf, g>>, sComma) : pf \in PatternLogFields, g \in GlobalLogFields }
    \cup { Join(<<g, pf>>, sComma) : pf \in PatternLogFields, g \in GlobalLogFields }

\* RLOG_TRACE_LEVEL: the strings of up to MaxFields fields and further
\* single fields
TraceLevelStrings ==
    { Join(fs, sComma) : fs \in FieldSeqs(TraceFieldVocab, MaxFields) }
    \cup { <<"-","1">>, <<"0">>, field(field(sBarGo, <<"4">>), <<"1">>) }

\* The environment: the variables init() reads and the two further
\* variables of the documentation
EnvFull(logLevel, traceLevel, callerInfo, noTime, logFile, timeFormat, logStream) ==
    [RLOG_LOG_LEVEL |-> logLevel, RLOG_TRACE_LEVEL |-> traceLevel,
     RLOG_CALLER_INFO |-> callerInfo, RLOG_LOG_NOTIME |-> noTime,
     RLOG_LOG_FILE |-> logFile, RLOG_TIME_FORMAT |-> timeFormat,
     RLOG_LOG_STREAM |-> logStream]

Env(logLevel, traceLevel, callerInfo, noTime, logFile) ==
    EnvFull(logLevel, traceLevel, callerInfo, noTime, logFile, sEmpty, sEmpty)

\* Level strings of the documentation and of the specification's examples
ExampleLogStrings ==
    { Join(<<field(sFooGo, sEmpty), sBADLEVEL, sDEBUG>>, sComma),
      Join(<<field(sFooGo, sTRACE), sWARN>>, sComma),
      Join(<<sWARN, <<"t","r","a","c","e">>>>, sComma),
      Join(<<sNONE, field(sFooGo, sDEBUG), field(sBarGo, sINFO)>>, sComma) }

\* Environments of the sequential specification: every log-level string
\* with no trace level, every trace-level string with no log level, and
\* log level NONE with trace levels.
FilterEnvs ==
    { Env(l, sEmpty, sEmpty, sEmpty, sEmpty) :
        l \in LogLevelStrings \cup ExampleLogStrings }
    \cup
    { Env(sEmpty, t, sEmpty, sEmpty, sEmpty) : t \in TraceLevelStrings }
    \cup
    { Env(sNONE, t, sEmpty, sEmpty, sEmpty) :
        t \in {<<"3">>, field(sFooGo, <<"2">>)} }

\* Environments of the concurrent specification
confTrace1 == Env(sEmpty, <<"1">>, sEmpty, sEmpty, sEmpty)
confTrace3 ==
    Env(sNONE, <<"3">>, <<"y","e","s">>, <<"1">>, <<"/","t","m","p","/","l">>)
ConcEnvs == { confTrace1, confTrace3 }

\* The frame of the code that calls a log function: whether the runtime can
\* report it, its file, its line and its function
siteFoo == [ok |-> TRUE, path |-> <<"/","a","/">> \o sFooGo, line |-> 22,
            func |-> <<"m","a","i","n",".","m","a","i","n">>]
siteBar == [ok |-> TRUE, path |-> <<"/","a","/">> \o sBarGo, line |-> 7,
            func |-> <<"m","a","i","n",".","r","u","n">>]
siteUnknown == noFrame
CallerSites == {siteFoo, siteBar, siteUnknown}
ConcSites == {siteFoo}

\* The frames of the package itself: basicLog and the log function
rlogGoPath == <<"/","g","/","r","l","o","g","/","r","l","o","g",".","g","o">>
basicLogFrame == [ok |-> TRUE, path |-> rlogGoPath, line |-> 285,
                  func |-> <<"r","l","o","g",".","b","a","s","i","c","L","o","g">>]
logFnFrame == [ok |-> TRUE, path |-> rlogGoPath, line |-> 361,
               func |-> <<"r","l","o","g",".","I","n","f","o">>]

\* The operands of the calls: a plain call prints plainArgs, a formatted call
\* msgFormat with fmtArgs
plainArgs == << <<"h","i">> >>
msgFormat == <<"n","=","%","d">>
fmtArgs == << <<"7">> >>

\* The time of the calls, as the log package prints it for Ldate and Ltime
nowDate == <<"2","0","1","6","/","1","2","/","0","5">>
nowTime == <<"1","2",":","0","3",":","4","1">>

Depths == (0 - NegDepth)..MaxDepth
ConcDepths == {1, 3}

\* The writers handed to SetNewLogWriter: a writer without a lock of its own
\* (a bytes.Buffer), and a file that has been closed
Writers == {"buffer"}
ConcWriters == {"buffer", "closed"}

\* Values of RLOG_CALLER_INFO and RLOG_LOG_NOTIME
BoolStrings ==
    { sEmpty, <<"y">>, <<"Y">>, <<"y","e","s">>, <<"Y","e","s">>, <<"1">>,
      <<"t">>, <<"t","r","u","e">>, <<"T","R","U","E">>, <<"t","R","u","E">>,
      <<"0">>, <<"n","o">>, <<"f","a","l","s","e">>, <<"y","s","e">>,
      <<"o","n">>, <<"2">>, <<"y","e","s"," ">> }

sLogFile == <<"/","t","m","p","/","l">>

\* Environments of the output specification: every value of the caller-info
\* flag with and without time stamps, every value of the no-timestamp flag,
\* with and without a log file, and the further variables of the
\* documentation
OutEnvs ==
    { Env(sDEBUG, <<"1","0","0">>, c, n, f) :
        c \in BoolStrings, n \in {sEmpty, <<"y","e","s">>}, f \in {sEmpty, sLogFile} }
    \cup
    { Env(sDEBUG, <<"1","0","0">>, sEmpty, n, sEmpty) : n \in BoolStrings }
    \cup
    { EnvFull(sEmpty, sEmpty, sEmpty, sEmpty, f, t, st) :
        f \in {sEmpty, sLogFile},
        t \in {sEmpty, <<"A","N","S","I","C">>},
        st \in {sEmpty, <<"s","t","d","o","u","t">>, <<"n","o","n","e">>} }

\* A caller whose file path has no directory
siteNoDir == [ok |-> TRUE, path |-> <<"x",".","g","o">>, line |-> 140,
              func |-> <<"m","a","i","n",".","f">>]
OutSites == {siteFoo, siteNoDir, siteUnknown}
OutDepths == {0 - NegDepth, 1, 10, 100}

\* Values of RLOG_LOG_LEVEL for the evaluation of patterns: patterns in both
\* orders, malformed globs, patterns with a directory part, globs that match
\* ".", several global fields, fields with an empty pattern
PatLogStrings ==
    { <<"f","o","o",".","g","o","=","E","R","R","O","R",",","f","*","=","D","E","B","U","G",",","D","E","B","U","G">>,
      <<"f","*","=","D","E","B","U","G",",","f","o","o",".","g","o","=","E","R","R","O","R",",","N","O","N","E">>,
      <<"b","a","r",".","g","o","=","D","E","B","U","G",",","W","A","R","N">>,
      <<"[","=","D","E","B","U","G",",","W","A","R","N">>,
      <<"[","o","o",".","g","o","=","D","E","B","U","G",",","f","o","o",".","g","o","=","E","R","R","O","R",",","I","N","F","O">>,
      <<"W","A","R","N">>,
      <<"f","o","o",".","g","o","=","E","R","R","O","R",",","I","N","F","O">>,
      <<"a","/","f","o","o",".","g","o","=","D","E","B","U","G",",","W","A","R","N">>,
      <<"*","/","f","o","o",".","g","o","=","D","E","B","U","G",",","W","A","R","N">>,
      <<"*","=","D","E","B","U","G",",","N","O","N","E">>,
      <<"?","=","D","E","B","U","G",",","E","R","R","O","R">>,
      <<"W","A","R","N",",","D","E","B","U","G">>,
      <<"D","E","B","U","G",",","=","E","R","R","O","R">>,
      <<"E","R","R","O","R",",","B","A","D","L","E","V","E","L">>,
      <<"=","W","A","R","N",",","x","=","y","=","z">>,
      <<"D","E","B","U","G",",","T","R","A","C","E">>,
      <<"=","D","E","B","U","G">>,
      <<"N","O","N","E">>,
      <<"D","E","B","U","G">>,
      <<"E","R","R","O","R">>,
      <<"C","R","I","T","I","C","A","L">>,
      <<"I","N","F","O">>,
      <<"w","a","r","n">>,
      <<"T","R","A","C","E">>,
      sEmpty }

\* Values of RLOG_TRACE_LEVEL for the evaluation of patterns
PatTraceStrings ==
    { sEmpty,
      <<"-","1">>,
      <<"3">>,
      <<"0">>,
      <<"x">>,
      <<"f","o","o",".","g","o","=","2">>,
      <<"f","o","o",".","g","o","=","1",",","f","*","=","5",",","0">>,
      <<"f","*","=","5",",","f","o","o",".","g","o","=","1",",","0">>,
      <<"2",",","5">>,
      <<"5",",","x">>,
      <<"=","4",",","1">>,
      <<"*","=","2">>,
      <<"[","=","3",",","1">>,
      <<"1">>,
      <<"a","/","f","o","o",".","g","o","=","3",",","1">>,
      <<"x","=","1","=","2",",","-","1">> }

\* Environments of the pattern specification: every log-level string with no
\* trace level and every trace-level string with no log level
PatEnvs ==
    { Env(l, sEmpty, sEmpty, sEmpty, sEmpty) : l \in PatLogStrings }
    \cup { Env(sEmpty, t, sEmpty, sEmpty, sEmpty) : t \in PatTraceStrings }

\* Environments of the compile specification: level strings with fields of
\* an empty pattern, several global fields and patterns, for both variables
CompileEnvs ==
    { Env(l, t, sEmpty, sEmpty, sEmpty) :
        l \in { sEmpty,
                <<"=","D","E","B","U","G">>,
                <<"D","E","B","U","G",",","=","E","R","R","O","R">>,
                <<"f","o","o",".","g","o","=","E","R","R","O","R",",","f","*","=","D","E","B","U","G",",","D","E","B","U","G">> },
        t \in { sEmpty,
                <<"=","4",",","1">>,
                <<"f","o","o",".","g","o","=","2">> } }

\* A caller whose file has the base name of siteFoo in another directory
siteFooElsewhere ==
    [ok |-> TRUE, path |-> <<"/","s","r","c","/","b","/">> \o sFooGo,
     line |-> 9, func |-> <<"b",".","R","u","n">>]
PatSites == {siteFoo, siteFooElsewhere, siteBar, siteUnknown}
PatDepths == {0, 1, 2, 3, 5}

\* ---------------------------------------------------------------------------
\* The original implementation: one log level and one trace level
\* ---------------------------------------------------------------------------
\* The known log levels of the original implementation
origLevelTrace == 0
origLevelDebug == 1
origLevelInfo == 2
origLevelWarn == 3
origLevelErr == 4
origLevelCrit == 5
origLevelNone == 6

\* levelNumbers of the original implementation
origLevelNumbers(name) ==
    CASE name = sTRACE -> [ok |-> TRUE, val |-> origLevelTrace]
      [] name = sDEBUG -> [ok |-> TRUE, val |-> origLevelDebug]
      [] name = sINFO -> [ok |-> TRUE, val |-> origLevelInfo]
      [] name = sWARN -> [ok |-> TRUE, val |-> origLevelWarn]
      [] name = sERROR -> [ok |-> TRUE, val |-> origLevelErr]
      [] name = sCRITICAL -> [ok |-> TRUE, val |-> origLevelCrit]
      [] name = sNONE -> [ok |-> TRUE, val |-> origLevelNone]
      [] OTHER -> [ok |-> FALSE, val |-> 0]

\* settingLogLevel after the original init(): the level named by the
\* upper-cased RLOG_LOG_LEVEL unless it is unknown or TRACE, INFO otherwise
origSettingLogLevel(e) ==
    LET r == origLevelNumbers(ToUpper(e.RLOG_LOG_LEVEL))
    IN IF r.ok /\ r.val # origLevelTrace THEN r.val ELSE origLevelInfo

\* settingTraceLevel after the original init(): the number in
\* RLOG_TRACE_LEVEL if it is one and at least -1, -1 otherwise
origSettingTraceLevel(e) ==
    LET traceLevelEnv == ToUpper(e.RLOG_TRACE_LEVEL)
        r == Atoi(traceLevelEnv)
    IN IF traceLevelEnv # sEmpty /\ ~r.err /\ r.val >= 0 - 1 THEN r.val
       ELSE 0 - 1

\* origBasicLog with the comparison of the levels turned around
origBasicLogTurned(logLevel, settingLogLevel) ==
    ~(logLevel > settingLogLevel /\ logLevel # origLevelTrace)

\* The test at the head of the original basicLog: a level below the
\* setting is dropped, except for trace messages
origBasicLog(logLevel, settingLogLevel) ==
    ~(logLevel < settingLogLevel /\ logLevel # origLevelTrace)

\* The original Trace and Tracef: basicLog is called for a depth from 0 up
\* to the setting
origTrace(traceLevel, settingTraceLevel, settingLogLevel) ==
    /\ traceLevel <= settingTraceLevel /\ traceLevel >= 0
    /\ origBasicLog(origLevelTrace, settingLogLevel)

\* The level the original Debug .. Criticalf hand to basicLog
origLevelOf(fn) ==
    CASE fn \in {"Debug", "Debugf"} -> origLevelDebug
      [] fn \in {"Info", "Infof"} -> origLevelInfo
      [] fn \in {"Warn", "Warnf"} -> origLevelWarn
      [] fn \in {"Error", "Errorf"} -> origLevelErr
      [] fn \in {"Critical", "Criticalf"} -> origLevelCrit

\* Whether the original implementation, set up from the environment e,
\* emits the call of fn (with depth traceLevel for Trace and Tracef)
origEmits(e, fn, traceLevel) ==
    IF fn \in {"Trace", "Tracef"}
    THEN origTrace(traceLevel, origSettingTraceLevel(e), origSettingLogLevel(e))
    ELSE origBasicLog(origLevelOf(fn), origSettingLogLevel(e))

\* ---------------------------------------------------------------------------
\* basicLog and the log functions
\* ---------------------------------------------------------------------------
\* The stack when basicLog calls runtime.Caller: basicLog itself, the log
\* function that called it, and the code that called the log function
callStack(site) == <<basicLogFrame, logFnFrame, site>>

\* runtime.Caller(skip): the frame skip levels above the caller of
\* runtime.Caller; not ok when there is no such frame or it is unknown.
runtimeCaller(stack, skip) ==
    IF skip + 1 \in 1..Len(stack) /\ stack[skip + 1].ok
    THEN stack[skip + 1]
    ELSE noFrame

\* callerOf that skips one frame only
callerOfSkipOne(site) == runtimeCaller(callStack(site), 1)

\* Line 285: runtime.Caller(2)
callerOf(site) == runtimeCaller(callStack(site), 2)

\* Lines 286-299: the last two elements of the caller's path, "" when the
\* caller is unknown.
moduleAndFileNameOf(site) ==
    IF ~site.ok THEN sEmpty
    ELSE LET sp == pathSplit(site.path)
             moduleName ==
                 IF sp.dir # sEmpty
                 THEN pathSplit(SubSeq(sp.dir, 1, Len(sp.dir) - 1)).file
                 ELSE sEmpty
         IN moduleName \o <<sSlash>> \o sp.file

\* allowLogOf that hands the log level to the trace filters
allowLogOfLevel(logSpec, traceSpec, moduleAndFileName, logLevel, traceLevel) ==
    IF traceLevel = notATrace
    THEN matchfilters(logSpec, moduleAndFileName, logLevel)
    ELSE matchfilters(traceSpec, moduleAndFileName, logLevel)

\* allowLogOf that also requires the log filters to admit a trace message
allowLogOfBoth(logSpec, traceSpec, moduleAndFileName, logLevel, traceLevel) ==
    IF traceLevel = notATrace
    THEN matchfilters(logSpec, moduleAndFileName, logLevel)
    ELSE /\ matchfilters(logSpec, moduleAndFileName, levelCrit)
         /\ matchfilters(traceSpec, moduleAndFileName, traceLevel)

\* Lines 302-311: the log filters decide a call without a trace level, the
\* trace filters every other call.
allowLogOf(logSpec, traceSpec, moduleAndFileName, logLevel, traceLevel) ==
    IF traceLevel = notATrace
    THEN matchfilters(logSpec, moduleAndFileName, logLevel)
    ELSE matchfilters(traceSpec, moduleAndFileName, traceLevel)

\* Lines 316-320: Sprintf("[%s:%d (%s)] ", moduleAndFileName, line,
\* callingFuncName) if caller info is shown, "" otherwise
callerInfoOf(show, caller, moduleAndFileName) ==
    IF show
    THEN <<"[">> \o moduleAndFileName \o <<":">> \o Itoa(caller.line)
         \o <<" ", "(">> \o caller.func \o <<")", "]", " ">>
    ELSE sEmpty

\* Lines 323-328: the message of a call
msgOf(format, a) == IF format # sEmpty THEN Sprintf(format, a) ELSE Sprintln(a)

\* Lines 339 and 345: Trace and Tracef add "(<depth>)" to the level name,
\* the other functions nothing
prefixAdditionOf(fn, traceLevel) ==
    IF fn \in {"Trace", "Tracef"}
    THEN <<"(">> \o Itoa(traceLevel) \o <<")">>
    ELSE sEmpty

\* formatLine without the field width, as "%s: %s%s"
formatLineNoPad(logLevel, prefixAddition, callerInfo, msg) ==
    levelStrings(logLevel) \o prefixAddition \o <<":", " ">> \o callerInfo \o msg

\* Lines 329-330: Sprintf("%-9s: %s%s", levelDecoration, callerInfo, msg)
formatLine(logLevel, prefixAddition, callerInfo, msg) ==
    LET levelDecoration == levelStrings(logLevel) \o prefixAddition
    IN padRight(levelDecoration, 9) \o <<":", " ">> \o callerInfo \o msg

\* The header the logger puts before a line for its flags
formatHeader(flags) ==
    (IF flags % 2 = 1 THEN nowDate \o <<" ">> ELSE sEmpty)
    \o (IF (flags \div 2) % 2 = 1 THEN nowTime \o <<" ">> ELSE sEmpty)

\* What Logger.Printf hands to the writer in one Write: the header, the line,
\* and a newline unless the line ends in one
loggerText(flags, s) ==
    formatHeader(flags) \o s
    \o (IF s # sEmpty /\ s[Len(s)] = "\n" THEN sEmpty ELSE <<"\n">>)

\* Whether Write of the writer returns an error
writeFails(writer) == writer = "closed"

\* Whether the writer serializes its Write calls itself, as an os.File does
serializesWrites(writer) == writer \in {"stderr", "logfile"}

\* basicLogResult that does not ignore a failed Printf
basicLogResultStrict(writeErr) == IF writeErr THEN "panicked" ELSE "returned"

\* Line 330: basicLog has no result and ignores what Printf did
basicLogResult(writeErr) == "returned"

\* basicLog up to the return of line 313
basicLog(p, fn, logLevel, traceLevel, formatted, site) ==
    /\ pc[p] = "idle"
    /\ LET caller == callerOf(site)
           mf == moduleAndFileNameOf(caller)
           allow == allowLogOf(logfilterSpec, tracefilterSpec, mf, logLevel, traceLevel)
       IN /\ call' = [call EXCEPT ![p] =
                        [noCall EXCEPT !.fn = fn, !.formatted = formatted,
                                       !.logLevel = logLevel,
                                       !.traceLevel = traceLevel,
                                       !.site = site,
                                       !.caller = caller,
                                       !.moduleAndFileName = mf,
                                       !.allowLog = allow,
                                       !.epoch = reconfigs,
                                       !.result = IF allow THEN "none"
                                                  ELSE "returned"]]
          /\ pc' = [pc EXCEPT ![p] = IF allow THEN "callerInfo" ELSE "idle"]
    /\ seen' = [seen EXCEPT ![p] = {Settings}]
    /\ UNCHANGED <<conf, logfilterSpec, tracefilterSpec, settingShowCallerInfo,
                   settingDateTimeFlags, logWriter, openable, reconfigs,
                   requested>>

\* Lines 316-328: the caller info decoration and the message
basicLogCallerInfo(p) ==
    /\ pc[p] = "callerInfo"
    /\ call' = [call EXCEPT
                  ![p].callerInfo = settingShowCallerInfo,
                  ![p].callerInfoText =
                      callerInfoOf(settingShowCallerInfo, call[p].caller,
                                   call[p].moduleAndFileName),
                  ![p].msg = IF call[p].formatted THEN msgOf(msgFormat, fmtArgs)
                             ELSE msgOf(sEmpty, plainArgs)]
    /\ pc' = [pc EXCEPT ![p] = "printf"]
    /\ UNCHANGED <<conf, logfilterSpec, tracefilterSpec, settingShowCallerInfo,
                   settingDateTimeFlags, logWriter, openable, reconfigs,
                   requested, seen>>

\* Lines 329-330: the line is formatted and handed to the logger found in
\* logWriter
basicLogPrintf(p) ==
    /\ pc[p] = "printf"
    /\ call' = [call EXCEPT
                  ![p].logger = logWriter.id,
                  ![p].writer = logWriter.writer,
                  ![p].flags = logWriter.flags,
                  ![p].line =
                      loggerText(logWriter.flags,
                                 formatLine(call[p].logLevel,
                                            prefixAdditionOf(call[p].fn,
                                                             call[p].traceLevel),
                                            call[p].callerInfoText, call[p].msg))]
    /\ pc' = [pc EXCEPT ![p] = "output"]
    /\ UNCHANGED <<conf, logfilterSpec, tracefilterSpec, settingShowCallerInfo,
                   settingDateTimeFlags, logWriter, openable, reconfigs,
                   requested, seen>>

\* The goroutines inside Write of the writer
writingTo(writer) == { q \in Procs : pc[q] = "write" /\ call[q].writer = writer }

\* The goroutines that hold the mutex of the logger
holding(logger) == { q \in Procs : pc[q] = "write" /\ call[q].logger = logger }

\* Line 330, inside Logger.Printf: the logger takes its mutex and starts the
\* one Write of the line; a writer that serializes its Write calls makes the
\* Write wait for the Write in progress.
loggerOutput(p) ==
    /\ pc[p] = "output"
    /\ holding(call[p].logger) = {}
    /\ serializesWrites(call[p].writer) => writingTo(call[p].writer) = {}
    /\ pc' = [pc EXCEPT ![p] = "write"]
    /\ UNCHANGED <<conf, logfilterSpec, tracefilterSpec, settingShowCallerInfo,
                   settingDateTimeFlags, logWriter, openable, reconfigs,
                   requested, call, seen>>

\* Line 330, the end of Logger.Printf: the Write is over, the mutex is
\* released and basicLog returns.
loggerWritten(p) ==
    /\ pc[p] = "write"
    /\ call' = [call EXCEPT
                  ![p].written = TRUE,
                  ![p].result = basicLogResult(writeFails(call[p].writer))]
    /\ pc' = [pc EXCEPT ![p] = "idle"]
    /\ UNCHANGED <<conf, logfilterSpec, tracefilterSpec, settingShowCallerInfo,
                   settingDateTimeFlags, logWriter, openable, reconfigs,
                   requested, seen>>

Trace(p, traceLevel, site) == basicLog(p, "Trace", levelTrace, traceLevel, FALSE, site)
Tracef(p, traceLevel, site) == basicLog(p, "Tracef", levelTrace, traceLevel, TRUE, site)
Debug(p, site) == basicLog(p, "Debug", levelDebug, notATrace, FALSE, site)
Debugf(p, site) == basicLog(p, "Debugf", levelDebug, notATrace, TRUE, site)
Info(p, site) == basicLog(p, "Info", levelInfo, notATrace, FALSE, site)
Infof(p, site) == basicLog(p, "Infof", levelInfo, notATrace, TRUE, site)
Warn(p, site) == basicLog(p, "Warn", levelWarn, notATrace, FALSE, site)
Warnf(p, site) == basicLog(p, "Warnf", levelWarn, notATrace, TRUE, site)
Error(p, site) == basicLog(p, "Error", levelErr, notATrace, FALSE, site)
Errorf(p, site) == basicLog(p, "Errorf", levelErr, notATrace, TRUE, site)
Critical(p, site) == basicLog(p, "Critical", levelCrit, notATrace, FALSE, site)
Criticalf(p, site) == basicLog(p, "Criticalf", levelCrit, notATrace, TRUE, site)

\* ---------------------------------------------------------------------------
\* Reconfiguration
\* ---------------------------------------------------------------------------
inFlight == { p \in Procs : pc[p] # "idle" }

\* SetNewLogWriter that builds the logger without the stored date/time flags
SetNewLogWriterNoFlags(writer) ==
    /\ logWriter.id < MaxLoggers
    /\ logWriter' = newLogger(logWriter.id + 1, writer, 0)
    /\ seen' = [p \in Procs |->
                  IF p \in inFlight
                  THEN seen[p] \cup {[Settings EXCEPT !.writer = writer]}
                  ELSE seen[p]]
    /\ UNCHANGED <<conf, logfilterSpec, tracefilterSpec, settingShowCallerInfo,
                   settingDateTimeFlags, openable, reconfigs, pc, call>>
    /\ requested' = writer

\* SetNewLogWriter that leaves a log file in place
SetNewLogWriterKeepFile(writer) ==
    /\ logWriter.id < MaxLoggers
    /\ logWriter' = newLogger(logWriter.id + 1,
                              IF logWriter.writer = "logfile" THEN "logfile"
                              ELSE writer,
                              settingDateTimeFlags)
    /\ seen' = [p \in Procs |->
                  IF p \in inFlight
                  THEN seen[p] \cup {[Settings EXCEPT !.writer = writer]}
                  ELSE seen[p]]
    /\ UNCHANGED <<conf, logfilterSpec, tracefilterSpec, settingShowCallerInfo,
                   settingDateTimeFlags, openable, reconfigs, pc, call>>
    /\ requested' = writer

\* SetNewLogWriter: one store of a new logger into logWriter
SetNewLogWriter(writer) ==
    /\ logWriter.id < MaxLoggers
    /\ logWriter' = newLogger(logWriter.id + 1, writer, settingDateTimeFlags)
    /\ seen' = [p \in Procs |->
                  IF p \in inFlight
                  THEN seen[p] \cup {[Settings EXCEPT !.writer = writer]}
                  ELSE seen[p]]
    /\ UNCHANGED <<conf, logfilterSpec, tracefilterSpec, settingShowCallerInfo,
                   settingDateTimeFlags, openable, reconfigs, pc, call>>
    /\ requested' = writer

\* Initialize(conf), and SetConfFile(path) for the configuration read from
\* the file: the construction of init() run again on a new configuration,
\* replacing the settings as a unit while no log call is between its reads
\* of them.
Initialize(e, opened) ==
    /\ inFlight = {}
    /\ reconfigs < MaxReconfigs
    /\ logWriter.id < MaxLoggers
    /\ LET st == initSettings(e, opened, logWriter.id + 1)
       IN /\ conf' = e
          /\ logfilterSpec' = st.logfilterSpec
          /\ tracefilterSpec' = st.tracefilterSpec
          /\ settingShowCallerInfo' = st.settingShowCallerInfo
          /\ settingDateTimeFlags' = st.settingDateTimeFlags
          /\ logWriter' = st.logWriter
    /\ openable' = opened
    /\ reconfigs' = reconfigs + 1
    /\ requested' = initWriter(e, opened)
    /\ UNCHANGED <<pc, call, seen>>

\* ---------------------------------------------------------------------------
\* Specifications
\* ---------------------------------------------------------------------------
idleProcs ==
    /\ pc = [p \in Procs |-> "idle"]
    /\ call = [p \in Procs |-> noCall]
    /\ seen = [p \in Procs |-> {}]

\* The program after init(), one goroutine logging.
Init ==
    /\ \E e \in FilterEnvs : installed(e, TRUE)
    /\ idleProcs

mainProc == 1

Next ==
    \/ \E site \in CallerSites, d \in Depths : Trace(mainProc, d, site)
    \/ \E site \in CallerSites, d \in Depths : Tracef(mainProc, d, site)
    \/ \E site \in CallerSites : Debug(mainProc, site)
    \/ \E site \in CallerSites : Debugf(mainProc, site)
    \/ \E site \in CallerSites : Info(mainProc, site)
    \/ \E site \in CallerSites : Infof(mainProc, site)
    \/ \E site \in CallerSites : Warn(mainProc, site)
    \/ \E site \in CallerSites : Warnf(mainProc, site)
    \/ \E site \in CallerSites : Error(mainProc, site)
    \/ \E site \in CallerSites : Errorf(mainProc, site)
    \/ \E site \in CallerSites : Critical(mainProc, site)
    \/ \E site \in CallerSites : Criticalf(mainProc, site)
    \/ basicLogCallerInfo(mainProc)
    \/ basicLogPrintf(mainProc)
    \/ loggerOutput(mainProc)
    \/ loggerWritten(mainProc)

Spec == Init /\ [][Next]_vars

\* The program after init() for the settings that shape the output, one
\* goroutine logging.
InitOut ==
    /\ \E e \in OutEnvs, opened \in BOOLEAN : installed(e, opened)
    /\ idleProcs

NextOut ==
    \/ \E site \in OutSites, d \in OutDepths : Trace(mainProc, d, site)
    \/ \E site \in OutSites, d \in OutDepths : Tracef(mainProc, d, site)
    \/ \E site \in OutSites : Debug(mainProc, site)
    \/ \E site \in OutSites : Debugf(mainProc, site)
    \/ \E site \in OutSites : Info(mainProc, site)
    \/ \E site \in OutSites : Infof(mainProc, site)
    \/ \E site \in OutSites : Warn(mainProc, site)
    \/ \E site \in OutSites : Warnf(mainProc, site)
    \/ \E site \in OutSites : Error(mainProc, site)
    \/ \E site \in OutSites : Errorf(mainProc, site)
    \/ \E site \in OutSites : Critical(mainProc, site)
    \/ \E site \in OutSites : Criticalf(mainProc, site)
    \/ basicLogCallerInfo(mainProc)
    \/ basicLogPrintf(mainProc)
    \/ loggerOutput(mainProc)
    \/ loggerWritten(mainProc)

SpecOut == InitOut /\ [][NextOut]_vars

\* The program after init(), one goroutine logging while other goroutines
\* re-wire the output and rebuild the settings. A log call writes no
\* setting, so one logging goroutine shows every interleaving of a call
\* with the reconfigurations.
InitConc ==
    /\ \E e \in ConcEnvs, opened \in BOOLEAN : installed(e, opened)
    /\ idleProcs

NextConc ==
    \/ \E site \in ConcSites, d \in ConcDepths : Trace(mainProc, d, site)
    \/ \E site \in ConcSites, d \in ConcDepths : Tracef(mainProc, d, site)
    \/ \E site \in ConcSites : Debug(mainProc, site)
    \/ \E site \in ConcSites : Debugf(mainProc, site)
    \/ \E site \in ConcSites : Info(mainProc, site)
    \/ \E site \in ConcSites : Infof(mainProc, site)
    \/ \E site \in ConcSites : Warn(mainProc, site)
    \/ \E site \in ConcSites : Warnf(mainProc, site)
    \/ \E site \in ConcSites : Error(mainProc, site)
    \/ \E site \in ConcSites : Errorf(mainProc, site)
    \/ \E site \in ConcSites : Critical(mainProc, site)
    \/ \E site \in ConcSites : Criticalf(mainProc, site)
    \/ basicLogCallerInfo(mainProc)
    \/ basicLogPrintf(mainProc)
    \/ loggerOutput(mainProc)
    \/ loggerWritten(mainProc)
    \/ \E w \in ConcWriters : SetNewLogWriter(w)
    \/ \E e \in ConcEnvs, opened \in BOOLEAN : Initialize(e, opened)

SpecConc == InitConc /\ [][NextConc]_vars

\* The program after init() with the default settings, its goroutines calling
\* Info at the same time while the output is re-wired to one writer again
\* and again.
InitWrite ==
    /\ installed(Env(sEmpty, sEmpty, sEmpty, sEmpty, sEmpty), TRUE)
    /\ idleProcs

NextWrite ==
    \/ \E p \in Procs : Info(p, siteFoo)
    \/ \E p \in Procs : basicLogCallerInfo(p)
    \/ \E p \in Procs : basicLogPrintf(p)
    \/ \E p \in Procs : loggerOutput(p)
    \/ \E p \in Procs : loggerWritten(p)
    \/ \E w \in Writers : SetNewLogWriter(w)

SpecWrite == InitWrite /\ [][NextWrite]_vars

\* The program after init() for the level strings that exercise the
\* patterns, one goroutine logging.
InitPat ==
    /\ \E e \in PatEnvs : installed(e, TRUE)
    /\ idleProcs

NextPat ==
    \/ \E site \in PatSites, d \in PatDepths : Trace(mainProc, d, site)
    \/ \E site \in PatSites, d \in PatDepths : Tracef(mainProc, d, site)
    \/ \E site \in PatSites : Debug(mainProc, site)
    \/ \E site \in PatSites : Debugf(mainProc, site)
    \/ \E site \in PatSites : Info(mainProc, site)
    \/ \E site \in PatSites : Infof(mainProc, site)
    \/ \E site \in PatSites : Warn(mainProc, site)
    \/ \E site \in PatSites : Warnf(mainProc, site)
    \/ \E site \in PatSites : Error(mainProc, site)
    \/ \E site \in PatSites : Errorf(mainProc, site)
    \/ \E site \in PatSites : Critical(mainProc, site)
    \/ \E site \in PatSites : Criticalf(mainProc, site)
    \/ basicLogCallerInfo(mainProc)
    \/ basicLogPrintf(mainProc)
    \/ loggerOutput(mainProc)
    \/ loggerWritten(mainProc)

SpecPat == InitPat /\ [][NextPat]_vars

\* The level strings compiled by init() and compiled again by every
\* reconfiguration, one goroutine logging in between.
InitCompile ==
    /\ \E e \in CompileEnvs : installed(e, TRUE)
    /\ idleProcs

NextCompile ==
    \/ \E e \in CompileEnvs : Initialize(e, TRUE)
    \/ \E site \in ConcSites : Info(mainProc, site)
    \/ basicLogCallerInfo(mainProc)
    \/ basicLogPrintf(mainProc)
    \/ loggerOutput(mainProc)
    \/ loggerWritten(mainProc)

SpecCompile == InitCompile /\ [][NextCompile]_vars

\* ---------------------------------------------------------------------------
\* Vocabulary of the properties
\* ---------------------------------------------------------------------------
LogFns == {"Debug", "Debugf", "Info", "Infof", "Warn", "Warnf",
           "Error", "Errorf", "Critical", "Criticalf"}
TraceFns == {"Trace", "Tracef"}

\* p has returned from a call of a log function
done(p) == pc[p] = "idle" /\ call[p].fn # "none"
doneLog(p) == done(p) /\ call[p].fn \in LogFns
doneTrace(p) == done(p) /\ call[p].fn \in TraceFns

\* the call of p produced a line
emitted(p) == call[p].written

\* A filter list without file patterns: the global filter only
onlyGlobal(filters, level) == filters = << [Pattern |-> sEmpty, Level |-> level] >>

\* ---------------------------------------------------------------------------
\* Properties
\* ---------------------------------------------------------------------------
\* C1: with only a global log level T (no file patterns), a call of Debug,
\* Info, Warn, Error or Critical, plain or formatted, is emitted if and only
\* if its level is at least as severe as T (level number <= T), for every T in
\* NONE..DEBUG.
C1_GlobalLogThreshold ==
    \A p \in Procs : \A T \in levelNone..levelDebug :
        (doneLog(p) /\ onlyGlobal(logfilterSpec, T))
            => (emitted(p) <=> call[p].logLevel <= T)

\* Threshold WARN: a WARN call was emitted
C1_Witness ==
    \E p \in Procs :
        /\ doneLog(p) /\ conf.RLOG_LOG_LEVEL = sWARN
        /\ onlyGlobal(logfilterSpec, levelWarn)
        /\ call[p].fn = "Warnf" /\ emitted(p)

\* The two pattern fields of the inputs: the field, the calling files its
\* pattern matches, and its level
PatternCases ==
    { [str |-> field(sFooGo, <<"d","e","b","u","g">>),
       sites |-> {siteFoo}, level |-> levelDebug],
      [str |-> field(<<"b","*">>, sERROR),
       sites |-> {siteBar}, level |-> levelErr] }

\* The global fields of the inputs and their levels
GlobalCases ==
    { [str |-> sNONE, level |-> levelNone],
      [str |-> field(sEmpty, sCRITICAL), level |-> levelCrit],
      [str |-> sERROR, level |-> levelErr],
      [str |-> sWARN, level |-> levelWarn],
      [str |-> sINFO, level |-> levelInfo],
      [str |-> sDEBUG, level |-> levelDebug] }

\* C2: for a log-level string made of a file pattern and a global level, in
\* either order, a message from a file matching the pattern is decided by the
\* pattern's level and a message from any other file by the global level.
C2_PatternOverridesGlobal ==
    \A p \in Procs : \A pat \in PatternCases : \A g \in GlobalCases :
        (/\ doneLog(p)
         /\ conf.RLOG_LOG_LEVEL \in { Join(<<pat.str, g.str>>, sComma),
                                      Join(<<g.str, pat.str>>, sComma) })
            => (emitted(p) <=>
                    call[p].logLevel <=
                        (IF call[p].site \in pat.sites THEN pat.level ELSE g.level))

\* "WARN,foo.go=debug": INFO from foo.go was emitted
C2_Witness ==
    \E p \in Procs :
        /\ doneLog(p)
        /\ conf.RLOG_LOG_LEVEL =
               Join(<<sWARN, field(sFooGo, <<"d","e","b","u","g">>)>>, sComma)
        /\ call[p].fn = "Info" /\ call[p].site = siteFoo /\ emitted(p)

\* C3: with a global trace level N >= 0 and no trace file patterns, a call
\* Trace(d, ...) or Tracef(d, ...) with d >= 0 is emitted if and only if
\* d <= N.
C3_GlobalTraceThreshold ==
    \A p \in Procs : \A N \in 0..(MaxDepth + 1) :
        (/\ doneTrace(p) /\ call[p].traceLevel >= 0
         /\ onlyGlobal(tracefilterSpec, N))
            => (emitted(p) <=> call[p].traceLevel <= N)

\* Trace level 3: depth 3 was emitted
C3_Witness ==
    \E p \in Procs :
        /\ doneTrace(p) /\ conf.RLOG_TRACE_LEVEL = <<"3">>
        /\ onlyGlobal(tracefilterSpec, 3)
        /\ call[p].traceLevel = 3 /\ emitted(p)

\* Trace level 3: depth 4 was suppressed
C3_WitnessSuppressed ==
    \E p \in Procs :
        /\ doneTrace(p) /\ onlyGlobal(tracefilterSpec, 3)
        /\ call[p].traceLevel = 4 /\ ~emitted(p)

\* C4: when the trace level is undefined or -1 and there are no trace file
\* patterns, no call of Trace or Tracef produces output, whatever its depth
\* (negative depths included).
C4_NoTraceWhenDisabled ==
    \A p \in Procs :
        (doneTrace(p) /\ onlyGlobal(tracefilterSpec, 0 - 1)) => ~emitted(p)

\* The trace settings paired with log level NONE in the inputs: the string,
\* the global trace level and the level of foo.go
NoneTraceCases ==
    { [str |-> <<"3">>, global |-> 3, foo |-> 3],
      [str |-> field(sFooGo, <<"2">>), global |-> 0 - 1, foo |-> 2] }

\* C5: with global log level NONE and no file patterns, no call of Debug,
\* Info, Warn, Error or Critical is emitted, while a Trace call (of a depth
\* >= 0, as trace depths are) is emitted exactly when the trace level admits
\* its depth.
C5_NoneDisablesLogOnly ==
    \A p \in Procs :
        onlyGlobal(logfilterSpec, levelNone) =>
            /\ doneLog(p) => ~emitted(p)
            /\ (doneTrace(p) /\ call[p].traceLevel >= 0) =>
                   /\ emitted(p) <=> matchfilters(tracefilterSpec,
                                                  call[p].moduleAndFileName,
                                                  call[p].traceLevel)
                   /\ \A c \in NoneTraceCases :
                          conf.RLOG_TRACE_LEVEL = c.str =>
                              (emitted(p) <=>
                                  call[p].traceLevel <=
                                      (IF call[p].site = siteFoo
                                       THEN c.foo ELSE c.global))

\* Log level NONE, trace level 3: a Trace call of depth 2 was emitted
C5_Witness ==
    \E p \in Procs :
        /\ conf.RLOG_LOG_LEVEL = sNONE /\ onlyGlobal(logfilterSpec, levelNone)
        /\ conf.RLOG_TRACE_LEVEL = <<"3">>
        /\ doneTrace(p) /\ call[p].traceLevel = 2 /\ emitted(p)

\* Log level NONE: a Critical call was suppressed
C5_WitnessLog ==
    \E p \in Procs :
        /\ conf.RLOG_LOG_LEVEL = sNONE /\ onlyGlobal(logfilterSpec, levelNone)
        /\ doneLog(p) /\ call[p].fn = "Critical" /\ ~emitted(p)

\* The fields of the inputs that set a global level
ValidGlobalLogFields == GlobalLogFields
ValidGlobalTraceFields ==
    { <<"-","1">>, <<"0">>, <<"3">>, field(sEmpty, <<"1">>) }

fieldsOf(s) == { Split(s, sComma)[i] : i \in 1..Len(Split(s, sComma)) }

\* The levels of the filters with an empty pattern
globalLevels(filters) ==
    { filters[i].Level : i \in { j \in 1..Len(filters) : filters[j].Pattern = sEmpty } }

\* C6: a log-level string without a valid global level (empty, only file
\* patterns, only invalid fields) gives the global log level INFO; a
\* trace-level string without a valid global level gives the global trace
\* level -1.
C6_DefaultGlobalLevels ==
    /\ fieldsOf(conf.RLOG_LOG_LEVEL) \cap ValidGlobalLogFields = {}
           => globalLevels(logfilterSpec) = {levelInfo}
    /\ fieldsOf(conf.RLOG_TRACE_LEVEL) \cap ValidGlobalTraceFields = {}
           => globalLevels(tracefilterSpec) = {0 - 1}

\* Only a file pattern in RLOG_LOG_LEVEL: INFO from another file was emitted
\* and DEBUG from it suppressed
C6_Witness ==
    \E p \in Procs :
        /\ conf.RLOG_LOG_LEVEL = field(sFooGo, <<"d","e","b","u","g">>)
        /\ globalLevels(logfilterSpec) = {levelInfo}
        /\ doneLog(p) /\ call[p].site = siteBar
        /\ call[p].fn = "Info" /\ emitted(p)

\* Only a file pattern in RLOG_TRACE_LEVEL: the global trace level is -1
C6_WitnessTrace ==
    \E p \in Procs :
        /\ conf.RLOG_TRACE_LEVEL = field(sFooGo, <<"2">>)
        /\ globalLevels(tracefilterSpec) = {0 - 1}
        /\ doneTrace(p) /\ call[p].site = siteBar
        /\ call[p].traceLevel = 0 /\ ~emitted(p)

\* The malformed fields of the inputs: wrong number of tokens or a level
\* that does not parse
MalformedLogFields ==
    { sEmpty, sBADLEVEL, field(sFooGo, sEmpty), field(field(sFooGo, sNONE), <<"x">>) }
MalformedTraceFields ==
    { sEmpty, <<"x">>, field(field(sBarGo, <<"4">>), <<"1">>) }

\* s without its fields in drop
dropFields(s, drop) ==
    Join(SelectSeq(Split(s, sComma), LAMBDA f : f \notin drop), sComma)

exampleMalformed == Join(<<field(sFooGo, sEmpty), sBADLEVEL, sDEBUG>>, sComma)

\* C7: a malformed field of a level string is skipped and changes the
\* compilation of no other field: the string compiles to the filter list of
\* the string without its malformed fields; "foo.go=,BADLEVEL,DEBUG" compiles
\* to the filter list of "DEBUG".
C7_MalformedFieldsSkipped ==
    /\ logfilterSpec =
           fromString(<< >>, dropFields(conf.RLOG_LOG_LEVEL, MalformedLogFields),
                      FALSE, levelInfo)
    /\ tracefilterSpec =
           fromString(<< >>, dropFields(conf.RLOG_TRACE_LEVEL, MalformedTraceFields),
                      TRUE, 0 - 1)
    /\ conf.RLOG_LOG_LEVEL = exampleMalformed
           => /\ onlyGlobal(logfilterSpec, levelDebug)
              /\ logfilterSpec = fromString(<< >>, sDEBUG, FALSE, levelInfo)

\* "foo.go=,BADLEVEL,DEBUG": a Debug call from foo.go was emitted
C7_Witness ==
    \E p \in Procs :
        /\ conf.RLOG_LOG_LEVEL = exampleMalformed
        /\ doneLog(p) /\ call[p].site = siteFoo
        /\ call[p].fn = "Debug" /\ emitted(p)

\* The fields of the inputs that name TRACE
TraceNamingFields == { sTRACE, <<"t","r","a","c","e">>, field(sFooGo, sTRACE) }

\* C8: no log filter, global or per pattern, has the threshold TRACE: a field
\* naming TRACE in the log-level string is ignored, leaving the global level
\* unchanged (INFO by default) and adding no pattern filter, so every log
\* filter threshold is in NONE..DEBUG.
C8_NoTraceThreshold ==
    /\ \A i \in 1..Len(logfilterSpec) :
           logfilterSpec[i].Level \in levelNone..levelDebug
    /\ logfilterSpec =
           fromString(<< >>, dropFields(conf.RLOG_LOG_LEVEL, TraceNamingFields),
                      FALSE, levelInfo)
    /\ conf.RLOG_LOG_LEVEL = sTRACE => onlyGlobal(logfilterSpec, levelInfo)

\* "foo.go=TRACE,WARN": the only filter is the global WARN, and an Info call
\* from foo.go was suppressed
C8_Witness ==
    \E p \in Procs :
        /\ conf.RLOG_LOG_LEVEL = Join(<<field(sFooGo, sTRACE), sWARN>>, sComma)
        /\ onlyGlobal(logfilterSpec, levelWarn)
        /\ doneLog(p) /\ call[p].site = siteFoo
        /\ call[p].fn = "Info" /\ ~emitted(p)

\* The filter lists the log-level and the trace-level settings can produce
AllLogSpecs ==
    { fromString(<< >>, l, FALSE, levelInfo) :
        l \in LogLevelStrings \cup ExampleLogStrings }
AllTraceSpecs ==
    { fromString(<< >>, t, TRUE, 0 - 1) : t \in TraceLevelStrings }

C9_WitnessSentinel ==
    \E p \in Procs :
        doneTrace(p) /\ call[p].traceLevel = notATrace /\ ~emitted(p)

ConcCases ==
    { [env |-> confTrace1, log |-> levelInfo, trace |-> 1,
       callerInfo |-> FALSE, flags |-> Ldate + Ltime],
      [env |-> confTrace3, log |-> levelNone, trace |-> 3,
       callerInfo |-> TRUE, flags |-> 0] }

\* C11: a log call started after a reconfiguration has returned is filtered
\* and formatted by the new configuration only, after any number of
\* reconfigurations: its decision follows the log level and trace level of
\* the configuration in force, and its line has the caller info and the time
\* stamp that configuration asks for.
C11_NewConfigurationOnly ==
    \A p \in Procs : \A c \in ConcCases :
        (done(p) /\ call[p].epoch = reconfigs /\ conf = c.env) =>
            /\ call[p].fn \in LogFns =>
                   (emitted(p) <=> call[p].logLevel <= c.log)
            /\ call[p].fn \in TraceFns =>
                   (emitted(p) <=> call[p].traceLevel <= c.trace)
            /\ emitted(p) =>
                   /\ call[p].callerInfo = c.callerInfo
                   /\ (call[p].callerInfoText # sEmpty) = c.callerInfo
                   /\ call[p].flags = c.flags
                   /\ call[p].line =
                          formatHeader(c.flags)
                          \o SubSeq(call[p].line, Len(formatHeader(c.flags)) + 1,
                                    Len(call[p].line))

\* After the last of several reconfigurations, to trace level 3: a Trace
\* call of depth 3 made since was emitted, with caller info and without
\* time stamp
C11_Witness ==
    \E p \in Procs :
        /\ reconfigs = MaxReconfigs /\ conf = confTrace3
        /\ doneTrace(p) /\ call[p].epoch = reconfigs
        /\ call[p].traceLevel = 3 /\ emitted(p)
        /\ call[p].callerInfo /\ call[p].flags = 0

\* After a reconfiguration to trace level 1: a Trace call of depth 3 made
\* since was suppressed
C11_WitnessSuppressed ==
    \E p \in Procs :
        /\ reconfigs >= 1 /\ conf = confTrace1
        /\ doneTrace(p) /\ call[p].epoch = reconfigs
        /\ call[p].traceLevel = 3 /\ ~emitted(p)

\* C12: once SetNewLogWriter(w) has returned, the line of every later log
\* call goes to w and to no destination configured before, until
\* SetNewLogWriter is called again: a call that holds the logger in force
\* writes to the writer that was handed to the latest SetNewLogWriter.
C12_LinesGoToNewWriter ==
    \A p \in Procs :
        (pc[p] \in {"output", "write"} \/ (done(p) /\ emitted(p))) =>
            (call[p].logger = logWriter.id => call[p].writer = requested)

\* A line went to the writer of a SetNewLogWriter call made after a log file
\* had been configured
C12_Witness ==
    \E p \in Procs :
        /\ done(p) /\ emitted(p) /\ call[p].written
        /\ conf.RLOG_LOG_FILE # sEmpty /\ openable
        /\ call[p].logger = logWriter.id /\ logWriter.id >= 1
        /\ call[p].writer = "buffer" /\ requested = "buffer"

\* The destinations the documentation gives a line: the selected stream
\* (stderr unless RLOG_LOG_STREAM says stdout or none) and, in addition, the
\* log file when one is configured
documentedStream(e) ==
    IF e.RLOG_LOG_STREAM = <<"s","t","d","o","u","t">> THEN {"stdout"}
    ELSE IF e.RLOG_LOG_STREAM = <<"n","o","n","e">> THEN {}
    ELSE {"stderr"}

documentedDestinations(e, opened) ==
    documentedStream(e)
    \cup (IF e.RLOG_LOG_FILE # sEmpty /\ opened THEN {"logfile"} ELSE {})

\* C13: the destinations of an emitted line are the selected stream
\* (stderr by default, stdout, or none) and additionally the log file when
\* one is configured: both get the line when both are configured, and only
\* the file gets it when the stream is "none".
C13_StreamAndFile ==
    \A p \in Procs :
        (done(p) /\ emitted(p) /\ call[p].written) =>
            {call[p].writer} = documentedDestinations(conf, openable)

decorationEnd(s) ==
    LET I == { i \in 1..(Len(s) - 1) : s[i] = ":" /\ s[i + 1] = " " }
    IN IF I = {} THEN 0 ELSE CHOOSE i \in I : \A j \in I : i <= j

\* The part of an emitted line after the level decoration and its ": "
afterDecoration(c) ==
    SubSeq(c.line, decorationEnd(c.line) + 2, Len(c.line))

\* The caller segments of the call sites, written out
expectedCallerInfo(site) ==
    CASE site = siteFoo ->
           <<"[","a","/","f","o","o",".","g","o",":","2","2"," ",
             "(","m","a","i","n",".","m","a","i","n",")","]"," ">>
      [] site = siteNoDir ->
           <<"[","/","x",".","g","o",":","1","4","0"," ",
             "(","m","a","i","n",".","f",")","]"," ">>
      [] site = siteUnknown ->
           <<"[",":","0"," ","(",")","]"," ">>

\* The messages of the calls as they end a line, written out
expectedMsg(formatted) ==
    IF formatted THEN <<"n","=","7","\n">> ELSE <<"h","i","\n">>

C16_WitnessOff ==
    \E p \in Procs :
        /\ done(p) /\ emitted(p) /\ ~settingShowCallerInfo
        /\ call[p].site = siteFoo
        /\ afterDecoration(call[p]) = <<"h","i","\n">>

\* The level names of the log functions, written out
expectedLevelName(fn) ==
    CASE fn \in {"Trace", "Tracef"} -> <<"T","R","A","C","E">>
      [] fn \in {"Debug", "Debugf"} -> <<"D","E","B","U","G">>
      [] fn \in {"Info", "Infof"} -> <<"I","N","F","O">>
      [] fn \in {"Warn", "Warnf"} -> <<"W","A","R","N">>
      [] fn \in {"Error", "Errorf"} -> <<"E","R","R","O","R">>
      [] fn \in {"Critical", "Criticalf"} -> <<"C","R","I","T","I","C","A","L">>

\* The level name of a call with "(<depth>)" for a trace
expectedDecoration(c) ==
    expectedLevelName(c.fn)
    \o (IF c.fn \in TraceFns
        THEN <<"(">> \o Itoa(c.traceLevel) \o <<")">>
        ELSE sEmpty)

\* C17: after the optional time stamp, every emitted line starts with its
\* level decoration, the level name with "(<depth>)" for a trace,
\* left-justified in a field of 9 characters and followed by ": ", as in
\* "INFO     : ", "CRITICAL : " and "TRACE(1) : ". A decoration longer than
\* the field is not cut and ": " follows it directly.
C17_LevelDecoration ==
    \A p \in Procs :
        (done(p) /\ emitted(p)) =>
            LET body == SubSeq(call[p].line,
                               Len(formatHeader(call[p].flags)) + 1,
                               Len(call[p].line))
                name == expectedDecoration(call[p])
                width == IF Len(name) < 9 THEN 9 ELSE Len(name)
            IN /\ Len(body) >= width + 2
               /\ SubSeq(body, 1, Len(name)) = name
               /\ \A i \in (Len(name) + 1)..width : body[i] = " "
               /\ body[width + 1] = ":" /\ body[width + 2] = " "

\* A line of Trace at depth 1 starts with "TRACE(1) : "
C17_Witness ==
    \E p \in Procs :
        /\ done(p) /\ emitted(p) /\ call[p].flags = 0
        /\ call[p].fn = "Trace" /\ call[p].traceLevel = 1
        /\ SubSeq(call[p].line, 1, 11)
               = <<"T","R","A","C","E","(","1",")"," ",":"," ">>

\* The time of the calls in the format ANSIC
nowANSIC ==
    <<"M","o","n"," ","D","e","c"," "," ","5"," ",
      "1","2",":","0","3",":","4","1"," ","2","0","1","6">>

\* The values among BoolStrings that the documentation calls true
TruthyStrings ==
    { <<"y">>, <<"Y">>, <<"y","e","s">>, <<"Y","e","s">>, <<"1">>, <<"t">>,
      <<"t","r","u","e">>, <<"T","R","U","E">>, <<"t","R","u","E">> }

\* the line of c starts with its level decoration: it has no time stamp
startsWithDecoration(c) ==
    SubSeq(c.line, 1, Len(expectedDecoration(c))) = expectedDecoration(c)

\* C18: a time stamp precedes the level decoration of every emitted line
\* unless the no-timestamp flag is true, and with a named time format
\* configured (ANSIC) the time stamp is in that format.
C18_TimestampInConfiguredFormat ==
    \A p \in Procs :
        (done(p) /\ emitted(p)) =>
            /\ startsWithDecoration(call[p])
                   <=> conf.RLOG_LOG_NOTIME \in TruthyStrings
            /\ (conf.RLOG_LOG_NOTIME \notin TruthyStrings
                 /\ conf.RLOG_TIME_FORMAT = <<"A","N","S","I","C">>) =>
                   SubSeq(call[p].line, 1, Len(nowANSIC) + 1)
                       = nowANSIC \o <<" ">>

\* The first half of C18, which the code keeps: time stamp unless the flag
\* is true
C18_TimestampUnlessFlag ==
    \A p \in Procs :
        (done(p) /\ emitted(p)) =>
            (startsWithDecoration(call[p])
                <=> conf.RLOG_LOG_NOTIME \in TruthyStrings)

\* the line of c has a caller segment after its level decoration
hasCallerSegment(c) ==
    LET rest == afterDecoration(c)
    IN rest # sEmpty /\ rest[1] = "["

\* C19: the caller-info flag and the no-timestamp flag are enabled exactly
\* when their value is, ignoring case, "y" or "yes" or parses as the boolean
\* true ("1", "t", "true"); every other value, empty or misspelled, leaves
\* the flag off, and init() completes all the same.
C19_TruthyFlagValues ==
    /\ conf.RLOG_CALLER_INFO \in BoolStrings
    /\ conf.RLOG_LOG_NOTIME \in BoolStrings
    /\ settingShowCallerInfo <=> conf.RLOG_CALLER_INFO \in TruthyStrings
    /\ settingDateTimeFlags = 0 <=> conf.RLOG_LOG_NOTIME \in TruthyStrings
    /\ settingDateTimeFlags \in {0, Ldate + Ltime}
    /\ \A p \in Procs :
          (done(p) /\ emitted(p)) =>
              /\ hasCallerSegment(call[p])
                     <=> conf.RLOG_CALLER_INFO \in TruthyStrings
              /\ startsWithDecoration(call[p])
                     <=> conf.RLOG_LOG_NOTIME \in TruthyStrings

\* With RLOG_CALLER_INFO=Yes and RLOG_LOG_NOTIME=yes a line has the caller
\* segment and no time stamp
C19_Witness ==
    \E p \in Procs :
        /\ conf.RLOG_CALLER_INFO = <<"Y","e","s">>
        /\ conf.RLOG_LOG_NOTIME = <<"y","e","s">>
        /\ done(p) /\ emitted(p)
        /\ hasCallerSegment(call[p]) /\ startsWithDecoration(call[p])

\* With the misspelled RLOG_LOG_NOTIME=yse a line has its time stamp
C19_WitnessMisspelled ==
    \E p \in Procs :
        /\ conf.RLOG_LOG_NOTIME = <<"y","s","e">>
        /\ done(p) /\ emitted(p)
        /\ ~startsWithDecoration(call[p]) /\ ~hasCallerSegment(call[p])

\* C20: when concurrent log calls write to the same destination, every
\* emitted line appears there whole and contiguous, never interleaved with
\* another line, also while SetNewLogWriter is called concurrently or after
\* it was called again with the same underlying writer: no two goroutines
\* are inside Write of one writer at the same time.
C20_LinesNeverInterleave ==
    \A p \in Procs : \A q \in Procs :
        (pc[p] = "write" /\ pc[q] = "write" /\ p # q) =>
            call[p].writer # call[q].writer

\* The filters and the level that decide the call c
filtersOf(c) == IF c.fn \in TraceFns THEN tracefilterSpec ELSE logfilterSpec
levelOf(c) == IF c.fn \in TraceFns THEN c.traceLevel ELSE c.logLevel

\* the pattern of the filter f matches the file name: the empty pattern
\* matches every name, another pattern is a glob on the base name
patternMatches(f, filename) ==
    f.Pattern = sEmpty \/ Match(f.Pattern, Base(filename))

\* The position of the first filter whose pattern matches, 0 without one
firstMatch(filters, filename) ==
    LET I == { i \in 1..Len(filters) : patternMatches(filters[i], filename) }
    IN IF I = {} THEN 0 ELSE CHOOSE i \in I : \A j \in I : i <= j

\* the verdict of the first matching filter; no match is a refusal
firstMatchAdmits(filters, filename, level) ==
    LET i == firstMatch(filters, filename)
    IN i # 0 /\ level <= filters[i].Level

emptyPatternAt(filters) == { i \in 1..Len(filters) : filters[i].Pattern = sEmpty }

\* at most one filter has the empty pattern, and it is the last one
globalFilterLast(filters) ==
    /\ Cardinality(emptyPatternAt(filters)) <= 1
    /\ emptyPatternAt(filters) \subseteq {Len(filters)}

\* C22: in every compiled filter spec at most one filter has the empty
\* pattern and, when present, it is the last element of the list, after any
\* sequence of configuration operations: compiling more than once, and
\* fields "=LEVEL" with an empty pattern.
C22_GlobalFilterLast ==
    globalFilterLast(logfilterSpec) /\ globalFilterLast(tracefilterSpec)

\* After the last of several reconfigurations, "DEBUG,=ERROR" and "=4,1" are
\* compiled to their single global filters, and a line was decided by them
C22_Witness ==
    \E p \in Procs :
        /\ reconfigs = MaxReconfigs
        /\ conf.RLOG_LOG_LEVEL = <<"D","E","B","U","G",",","=","E","R","R","O","R">>
        /\ conf.RLOG_TRACE_LEVEL = <<"=","4",",","1">>
        /\ logfilterSpec = << [Pattern |-> sEmpty, Level |-> levelErr] >>
        /\ tracefilterSpec = << [Pattern |-> sEmpty, Level |-> 1] >>
        /\ done(p) /\ call[p].epoch = reconfigs /\ ~emitted(p)

\* no trace patterns and the global trace level disabled: an empty filter
\* list, or the list of the disabled global filter alone
traceDisabled ==
    tracefilterSpec \in { << >>, << [Pattern |-> sEmpty, Level |-> 0 - 1] >> }

\* C23: when the active trace filter spec has no filters (no trace patterns
\* and the global trace level disabled), Trace and Tracef return at once:
\* no caller introspection is performed, no message is formatted and
\* nothing is written.
C23_DisabledTraceReturnsAtOnce ==
    \A p \in Procs :
        (traceDisabled /\ call[p].fn \in TraceFns) =>
            /\ ~call[p].caller.ok
            /\ call[p].moduleAndFileName = sEmpty
            /\ call[p].msg = sEmpty
            /\ ~call[p].written

\* C24: compiling a trace-level string whose global level is the disabled
\* value -1, given or by default, adds no global filter, so a trace-level
\* string without valid pattern fields compiles to the empty list;
\* compiling a log-level string always ends with a global filter.
C24_DisabledGlobalOmitted ==
    /\ \A i \in 1..Len(tracefilterSpec) :
          tracefilterSpec[i].Pattern = sEmpty => tracefilterSpec[i].Level # 0 - 1
    /\ conf.RLOG_TRACE_LEVEL \in {sEmpty, <<"-","1">>, <<"x">>} =>
          tracefilterSpec = << >>
    /\ logfilterSpec # << >>
    /\ logfilterSpec[Len(logfilterSpec)].Pattern = sEmpty

RECURSIVE withoutBadPatterns(_)
\* The filters whose pattern is a valid glob, in their order
withoutBadPatterns(filters) ==
    IF filters = << >> THEN << >>
    ELSE IF badPattern(Head(filters).Pattern)
         THEN withoutBadPatterns(Tail(filters))
         ELSE <<Head(filters)>> \o withoutBadPatterns(Tail(filters))

\* C25: a filter whose pattern is not a valid glob matches no file name and
\* raises no error; the evaluation goes on with the filters after it and
\* the global level, and the message is decided as if the filter were
\* absent.
C25_BadPatternNeverMatches ==
    \A p \in Procs :
        done(p) =>
            LET fs == filtersOf(call[p])
                mf == call[p].moduleAndFileName
                lv == levelOf(call[p])
            IN /\ \A i \in 1..Len(fs) :
                     badPattern(fs[i].Pattern) => ~match(fs[i], mf, lv).matched
               /\ emitted(p) <=> firstMatchAdmits(withoutBadPatterns(fs), mf, lv)
               /\ call[p].result = "returned"

\* With "[oo.go=DEBUG,foo.go=ERROR,INFO" an Info call from foo.go is
\* suppressed by the second filter: the malformed first one was passed over
C25_Witness ==
    \E p \in Procs :
        /\ logfilterSpec = << [Pattern |-> <<"[","o","o",".","g","o">>,
                               Level |-> levelDebug],
                              [Pattern |-> sFooGo, Level |-> levelErr],
                              [Pattern |-> sEmpty, Level |-> levelInfo] >>
        /\ done(p) /\ call[p].fn = "Info" /\ call[p].site = siteFoo
        /\ ~emitted(p) /\ call[p].result = "returned"

\* C26: when the caller introspection fails the log call still completes:
\* the file name used for filtering is the empty string, no file pattern
\* decides the message, and the global level alone determines whether it
\* is emitted.
C26_UnknownCallerGlobalOnly ==
    \A p \in Procs :
        (done(p) /\ ~call[p].caller.ok) =>
            LET fs == filtersOf(call[p])
            IN /\ call[p].result = "returned"
               /\ call[p].moduleAndFileName = sEmpty
               /\ emitted(p) <=> levelOf(call[p]) <= fs[Len(fs)].Level

\* The base names of the files of the call sites, written out
expectedBaseName(site) ==
    CASE site \in {siteFoo, siteFooElsewhere} -> <<"f","o","o",".","g","o">>
      [] site = siteBar -> <<"b","a","r",".","g","o">>

\* the pattern has a directory part
hasDirectoryPart(pattern) == \E i \in 1..Len(pattern) : pattern[i] = "/"

\* the verdict of the first filter that has the empty pattern or whose
\* glob matches the name
firstOnNameAdmits(filters, name, level) ==
    LET I == { i \in 1..Len(filters) :
                 filters[i].Pattern = sEmpty \/ Match(filters[i].Pattern, name) }
    IN I # {} /\ level <= filters[CHOOSE i \in I : \A j \in I : i <= j].Level

\* C27: a file pattern is compared with the base name of the caller's file
\* only: callers whose files have the same base name in different
\* directories get the same decision, and a pattern with a directory part
\* (as "a/foo.go" for the file /a/foo.go) matches no caller.
C27_BaseNameOnly ==
    \A p \in Procs :
        done(p) =>
            LET fs == filtersOf(call[p])
                mf == call[p].moduleAndFileName
                lv == levelOf(call[p])
            IN /\ call[p].caller.ok =>
                     (emitted(p)
                        <=> firstOnNameAdmits(fs, expectedBaseName(call[p].site), lv))
               /\ \A i \in 1..Len(fs) :
                     hasDirectoryPart(fs[i].Pattern) => ~match(fs[i], mf, lv).matched

\* With "a/foo.go=DEBUG,WARN" a Debug call from /a/foo.go is suppressed by
\* the global level: the pattern with the directory did not match
C27_Witness ==
    \E p \in Procs :
        /\ logfilterSpec = << [Pattern |-> <<"a","/">> \o sFooGo,
                               Level |-> levelDebug],
                              [Pattern |-> sEmpty, Level |-> levelWarn] >>
        /\ done(p) /\ call[p].fn = "Debug" /\ call[p].site = siteFoo
        /\ call[p].moduleAndFileName = <<"a","/">> \o sFooGo
        /\ ~emitted(p)

\* With "foo.go=ERROR,INFO" an Info call from foo.go of another directory
\* is suppressed as the one from /a/foo.go is
C27_WitnessElsewhere ==
    \E p \in Procs :
        /\ logfilterSpec = << [Pattern |-> sFooGo, Level |-> levelErr],
                              [Pattern |-> sEmpty, Level |-> levelInfo] >>
        /\ done(p) /\ call[p].fn = "Info" /\ call[p].site = siteFooElsewhere
        /\ ~emitted(p)

\* Level strings with several global fields and the global level they ask
\* for: that of the last valid global field
SeveralGlobalsLog ==
    { [s |-> <<"W","A","R","N",",","D","E","B","U","G">>, level |-> levelDebug],
      [s |-> <<"D","E","B","U","G",",","=","E","R","R","O","R">>, level |-> levelErr],
      [s |-> <<"E","R","R","O","R",",","B","A","D","L","E","V","E","L">>, level |-> levelErr],
      [s |-> <<"=","W","A","R","N",",","x","=","y","=","z">>, level |-> levelWarn],
      [s |-> <<"D","E","B","U","G",",","T","R","A","C","E">>, level |-> levelDebug] }

SeveralGlobalsTrace ==
    { [s |-> <<"2",",","5">>, level |-> 5],
      [s |-> <<"5",",","x">>, level |-> 5],
      [s |-> <<"=","4",",","1">>, level |-> 1] }

\* C28: when a level string has several valid global fields (bare levels or
\* fields with an empty pattern) the last valid one gives the global level,
\* and an invalid global field after a valid one does not reset it.
C28_LastValidGlobalWins ==
    /\ \A c \in SeveralGlobalsLog :
          conf.RLOG_LOG_LEVEL = c.s =>
              /\ logfilterSpec = << [Pattern |-> sEmpty, Level |-> c.level] >>
              /\ \A p \in Procs :
                    doneLog(p) => (emitted(p) <=> call[p].logLevel <= c.level)
    /\ \A c \in SeveralGlobalsTrace :
          conf.RLOG_TRACE_LEVEL = c.s =>
              /\ tracefilterSpec = << [Pattern |-> sEmpty, Level |-> c.level] >>
              /\ \A p \in Procs :
                    doneTrace(p) => (emitted(p) <=> call[p].traceLevel <= c.level)

\* With "DEBUG,=ERROR" a Warn call is suppressed: the later global field
\* with the empty pattern replaced the earlier DEBUG
C28_Witness ==
    \E p \in Procs :
        /\ conf.RLOG_LOG_LEVEL = <<"D","E","B","U","G",",","=","E","R","R","O","R">>
        /\ done(p) /\ call[p].fn = "Warn" /\ ~emitted(p)

\* With "ERROR,BADLEVEL" an Error call is emitted: the invalid field did not
\* reset the level
C28_WitnessInvalidLater ==
    \E p \in Procs :
        /\ conf.RLOG_LOG_LEVEL = <<"E","R","R","O","R",",","B","A","D","L","E","V","E","L">>
        /\ done(p) /\ call[p].fn = "Error" /\ emitted(p)

\* C29: SetNewLogWriter changes the destination only: the log filter spec,
\* the trace filter spec and the caller-info flag stay as they are, and
\* lines written to the new destination have a time stamp exactly when
\* lines written to the previous one had.
C29_SetNewLogWriterFrame ==
    [][(logWriter' # logWriter /\ reconfigs' = reconfigs) =>
          /\ logfilterSpec' = logfilterSpec
          /\ tracefilterSpec' = tracefilterSpec
          /\ settingShowCallerInfo' = settingShowCallerInfo
          /\ settingDateTimeFlags' = settingDateTimeFlags
          /\ conf' = conf
          /\ formatHeader(logWriter'.flags) = formatHeader(logWriter.flags)
          /\ logWriter'.writer = requested']_vars

\* After SetNewLogWriter a line with a time stamp was written to the new
\* destination, under the settings init() had made
C29_Witness ==
    \E p \in Procs :
        /\ reconfigs = 0 /\ logWriter.id >= 1 /\ requested = "buffer"
        /\ conf = confTrace1
        /\ done(p) /\ emitted(p) /\ call[p].logger = logWriter.id
        /\ call[p].writer = "buffer"
        /\ SubSeq(call[p].line, 1, Len(nowDate)) = nowDate

\* The level strings that are one global level
SingleGlobalLog ==
    { sEmpty, <<"N","O","N","E">>, <<"C","R","I","T","I","C","A","L">>, <<"E","R","R","O","R">>, <<"W","A","R","N">>, <<"I","N","F","O">>, <<"D","E","B","U","G">>, <<"w","a","r","n">>, <<"T","R","A","C","E">> }
SingleGlobalTrace ==
    { sEmpty, <<"-","1">>, <<"0">>, <<"1">>, <<"3">> }

\* C30: for a configuration of one global log level and one global trace
\* level of at least -1, without file patterns, the filter-spec
\* implementation (NONE=0 .. TRACE=6, emit when level <= threshold) and the
\* original implementation (TRACE=0 .. NONE=6, emit when level >= setting,
\* trace when 0 <= depth <= setting) decide every log level and every
\* trace depth >= 0 alike.
C30_SameDecisionAsOriginal ==
    \A p \in Procs :
        (/\ done(p)
         /\ conf.RLOG_LOG_LEVEL \in SingleGlobalLog
         /\ conf.RLOG_TRACE_LEVEL \in SingleGlobalTrace
         /\ call[p].fn \in TraceFns => call[p].traceLevel >= 0) =>
            (emitted(p) <=> origEmits(conf, call[p].fn, call[p].traceLevel))

\* With the global log level WARN both implementations suppress Info and
\* the filter-spec implementation has just done so
C30_Witness ==
    \E p \in Procs :
        /\ conf.RLOG_LOG_LEVEL = sWARN
        /\ done(p) /\ call[p].fn = "Info" /\ ~emitted(p)
        /\ ~origEmits(conf, "Info", call[p].traceLevel)
        /\ origEmits(conf, "Warn", call[p].traceLevel)

\* With the global trace level 3 both implementations emit a trace of
\* depth 3
C30_WitnessTrace ==
    \E p \in Procs :
        /\ conf.RLOG_TRACE_LEVEL = <<"3">>
        /\ doneTrace(p) /\ call[p].traceLevel = 3 /\ emitted(p)
        /\ origEmits(conf, call[p].fn, 3) /\ ~origEmits(conf, call[p].fn, 5)

====
